---- MODULE Spec2Model ----
(***************************************************************************)
(* Model of the replication inspector of kube-arangodb:                    *)
(* DeploymentReplication.inspectDeploymentReplication (package             *)
(* replication).  One DeploymentReplication object is modelled together    *)
(* with the destination syncmaster it drives.  Durations are in seconds.   *)
(***************************************************************************)
EXTENDS Integers, Sequences, FiniteSets, TLC

VARIABLES
    phase,                   \* dr.status.Phase
    deletionTimestamp,       \* dr.apiObject.GetDeletionTimestamp() != nil
    finalizer,               \* the finalizer marker is on the object
    conditions,              \* dr.status.Conditions (in memory)
    persisted,               \* Status.Conditions as last written to the object store
    recentInspectionErrors,  \* dr.recentInspectionErrors
    dest,                    \* state of the destination syncmaster (remote)
    prevHasError,            \* hasError of the inspection before the last one
    prevCancelOK,            \* the inspection before the last one cancelled the sync
    last,                    \* what the last inspection did and returned
    main,                    \* the operator process: cmdMainRun's position and inputs
    loop,                    \* the object's inspection loop: trigger and inspections in flight
    run                      \* an inspection in execution, call by call, and the supervisor's cancellation

vars == <<phase, deletionTimestamp, finalizer, conditions, persisted, recentInspectionErrors, dest,
          prevHasError, prevCancelOK, last, main, loop, run>>

\* Largest lastInterval handed to an inspection.
MaxLastInterval == 90

\* The values of lastInterval the inspections are run with: below
\* minInspectionInterval, within the bounds, above maxInspectionInterval.
LastIntervals == {0, 30, MaxLastInterval}

\* The bounds of the inspection interval (package constants).
minInspectionInterval == 1
maxInspectionInterval == 60

\* nextInterval after a successful cancel or configure call.
FastRecheck == 10

SeqToSet(q) == {q[i] : i \in 1..Len(q)}

PhaseNone == "None"
PhaseFailed == "Failed"

\* Destination status as the inspector distinguishes it: not active, active
\* with a source intersecting Spec.Source, active with another source.
DestStates == {"inactive", "match", "mismatch"}

ConditionTypeConfigured == "Configured"

Condition(type, isTrue, reason, message) ==
    [type |-> type, isTrue |-> isTrue, reason |-> reason, message |-> message]

\* Index of the condition of the given type in the list, 0 when there is none.
ConditionIndex(list, type) ==
    IF \E i \in 1..Len(list) : list[i].type = type
    THEN CHOOSE i \in 1..Len(list) :
            /\ list[i].type = type
            /\ \A j \in 1..(i - 1) : list[j].type # type
    ELSE 0

\* ConditionList.Update: the new list and whether anything changed.
ConditionsUpdate(list, type, isTrue, reason, message) ==
    LET i == ConditionIndex(list, type)
        c == Condition(type, isTrue, reason, message)
    IN  IF i = 0 THEN [list |-> Append(list, c), changed |-> TRUE]
        ELSE IF list[i] = c THEN [list |-> list, changed |-> FALSE]
        ELSE [list |-> [list EXCEPT ![i] = c], changed |-> TRUE]

\* AddFinalizers with the bug of not looking at the deletion timestamp.
AddFinalizersAlways(marker, deleted, ok) ==
    IF marker
    THEN [finalizer |-> marker, calls |-> <<>>, failed |-> {}]
    ELSE IF ok
    THEN [finalizer |-> TRUE, calls |-> <<"AddFinalizer">>, failed |-> {}]
    ELSE [finalizer |-> FALSE, calls |-> <<"AddFinalizer">>,
          failed |-> {"AddFinalizer"}]

\* addFinalizers: puts the finalizer marker on an object that lacks it and is
\* not terminating; the write to the object store can fail.
AddFinalizers(marker, deleted, ok) ==
    IF deleted \/ marker
    THEN [finalizer |-> marker, calls |-> <<>>, failed |-> {}]
    ELSE IF ok
    THEN [finalizer |-> TRUE, calls |-> <<"AddFinalizer">>, failed |-> {}]
    ELSE [finalizer |-> FALSE, calls |-> <<"AddFinalizer">>,
          failed |-> {"AddFinalizer"}]

\* runFinalizers: runs the cleanup of the marker the object holds; removes the
\* marker only when the cleanup (and the removal) succeeded.
RunFinalizers(marker, ok) ==
    IF ~marker
    THEN [finalizer |-> FALSE, calls |-> <<>>, failed |-> {}]
    ELSE IF ok
    THEN [finalizer |-> FALSE, calls |-> <<"RunFinalizers">>, failed |-> {}]
    ELSE [finalizer |-> TRUE, calls |-> <<"RunFinalizers">>,
          failed |-> {"RunFinalizers"}]

\* FinalizeStep with the bug of not counting a failed cleanup as an error.
FinalizeStepNoError(marker, ok) ==
    [run |-> RunFinalizers(marker, ok), hasError |-> FALSE]

\* "Is delete triggered?": the deletion branch runs the finalizers and counts
\* their failure as an error of the inspection.
FinalizeStep(marker, ok) ==
    [run |-> RunFinalizers(marker, ok),
     hasError |-> RunFinalizers(marker, ok).failed # {}]

\* DestinationDecision with the bug of configuring over a sync from another
\* source without cancelling it.
DestinationDecisionNoCancel(d) ==
    IF d = "match"
    THEN [isTrue |-> TRUE, reason |-> "Active",
          message |-> "Destination syncmaster is configured correctly and active",
          cancelSyncNeeded |-> FALSE, configureSyncNeeded |-> FALSE]
    ELSE IF d = "mismatch"
    THEN [isTrue |-> FALSE, reason |-> "Invalid",
          message |-> "Destination syncmaster is configured for different source",
          cancelSyncNeeded |-> FALSE, configureSyncNeeded |-> TRUE]
    ELSE [isTrue |-> FALSE, reason |-> "Inactive",
          message |-> "Destination syncmaster is configured correctly but in-active",
          cancelSyncNeeded |-> FALSE, configureSyncNeeded |-> TRUE]

\* DestinationDecision with the bug of marking both actions for a sync from
\* another source.
DestinationDecisionBoth(d) ==
    IF d = "match"
    THEN [isTrue |-> TRUE, reason |-> "Active",
          message |-> "Destination syncmaster is configured correctly and active",
          cancelSyncNeeded |-> FALSE, configureSyncNeeded |-> FALSE]
    ELSE IF d = "mismatch"
    THEN [isTrue |-> FALSE, reason |-> "Invalid",
          message |-> "Destination syncmaster is configured for different source",
          cancelSyncNeeded |-> TRUE, configureSyncNeeded |-> TRUE]
    ELSE [isTrue |-> FALSE, reason |-> "Inactive",
          message |-> "Destination syncmaster is configured correctly but in-active",
          cancelSyncNeeded |-> FALSE, configureSyncNeeded |-> TRUE]

\* "Inspect destination status": the condition to set and the action to mark
\* for a destination in state d.
DestinationDecision(d) ==
    IF d = "match"
    THEN [isTrue |-> TRUE, reason |-> "Active",
          message |-> "Destination syncmaster is configured correctly and active",
          cancelSyncNeeded |-> FALSE, configureSyncNeeded |-> FALSE]
    ELSE IF d = "mismatch"
    THEN [isTrue |-> FALSE, reason |-> "Invalid",
          message |-> "Destination syncmaster is configured for different source",
          cancelSyncNeeded |-> TRUE, configureSyncNeeded |-> FALSE]
    ELSE [isTrue |-> FALSE, reason |-> "Inactive",
          message |-> "Destination syncmaster is configured correctly but in-active",
          cancelSyncNeeded |-> FALSE, configureSyncNeeded |-> TRUE]

\* InspectDestination with the bug of marking the cancel or configure action
\* only when the condition changed.
InspectDestinationOnChange(conds, destStatusOK, d, interOK) ==
    LET none == [conditions |-> conds, seen |-> "none", changed |-> FALSE,
                 updateStatusNeeded |-> FALSE, configureSyncNeeded |-> FALSE,
                 cancelSyncNeeded |-> FALSE,
                 calls |-> <<"DestinationStatus">>, failed |-> {}]
        t == DestinationDecision(d)
        u == ConditionsUpdate(conds, ConditionTypeConfigured, t.isTrue, t.reason,
                              t.message)
    IN  IF ~destStatusOK
        THEN [none EXCEPT !.failed = {"DestinationStatus"}]
        ELSE IF d # "inactive" /\ ~interOK
        THEN [none EXCEPT !.calls = Append(@, "IsIncomingEndpoint"),
                          !.failed = {"IsIncomingEndpoint"}]
        ELSE [none EXCEPT !.calls = IF d # "inactive"
                                    THEN Append(@, "IsIncomingEndpoint") ELSE @,
                          !.seen = d,
                          !.cancelSyncNeeded = t.cancelSyncNeeded /\ u.changed,
                          !.configureSyncNeeded = t.configureSyncNeeded /\ u.changed,
                          !.conditions = u.list,
                          !.changed = u.changed,
                          !.updateStatusNeeded = u.changed]

\* "Fetch status of destination" and "Inspect destination status": d is the
\* state the destination syncmaster is in; isIncomingEndpoint is called for an
\* active destination only.
InspectDestination(conds, destStatusOK, d, interOK) ==
    LET none == [conditions |-> conds, seen |-> "none", changed |-> FALSE,
                 updateStatusNeeded |-> FALSE, configureSyncNeeded |-> FALSE,
                 cancelSyncNeeded |-> FALSE,
                 calls |-> <<"DestinationStatus">>, failed |-> {}]
        t == DestinationDecision(d)
        u == ConditionsUpdate(conds, ConditionTypeConfigured, t.isTrue, t.reason,
                              t.message)
    IN  IF ~destStatusOK
        THEN [none EXCEPT !.failed = {"DestinationStatus"}]
        ELSE IF d # "inactive" /\ ~interOK
        THEN [none EXCEPT !.calls = Append(@, "IsIncomingEndpoint"),
                          !.failed = {"IsIncomingEndpoint"}]
        ELSE [none EXCEPT !.calls = IF d # "inactive"
                                    THEN Append(@, "IsIncomingEndpoint") ELSE @,
                          !.seen = d,
                          !.cancelSyncNeeded = t.cancelSyncNeeded,
                          !.configureSyncNeeded = t.configureSyncNeeded,
                          !.conditions = u.list,
                          !.changed = u.changed,
                          !.updateStatusNeeded = u.changed]

\* Outcomes of the source side of an inspection.
SourceOutcomes ==
    {"clientError", "statusError", "inactive", "checkError", "outgoing", "noOutgoing"}

\* "Inspect source": the calls made and the ones that failed; nothing else
\* comes out of it.
InspectSource(src) ==
    IF src = "clientError"
    THEN [calls |-> <<"CreateSourceClient">>, failed |-> {"CreateSourceClient"}]
    ELSE IF src = "statusError"
    THEN [calls |-> <<"CreateSourceClient", "SourceStatus">>,
          failed |-> {"SourceStatus"}]
    ELSE IF src = "inactive"
    THEN [calls |-> <<"CreateSourceClient", "SourceStatus">>, failed |-> {}]
    ELSE [calls |-> <<"CreateSourceClient", "SourceStatus", "HasOutgoingEndpoint">>,
          failed |-> IF src = "checkError" THEN {"HasOutgoingEndpoint"} ELSE {}]

\* SourceError with the bug of counting a failed source call as an error.
SourceErrorCounts(s) == s.failed # {}

\* hasError after "Inspect source": its branches only log.
SourceError(s) == FALSE

\* UpdateStatus with the bug of writing the status whether or not a condition
\* changed.
UpdateStatusAlways(updateStatusNeeded, updateOK, conds, stored, hasError) ==
    IF updateOK
    THEN [persisted |-> conds, hasError |-> hasError,
          calls |-> <<"UpdateCRStatus">>, failed |-> {}]
    ELSE [persisted |-> stored, hasError |-> TRUE,
          calls |-> <<"UpdateCRStatus">>, failed |-> {"UpdateCRStatus"}]

\* "Update status if needed".
UpdateStatus(updateStatusNeeded, updateOK, conds, stored, hasError) ==
    IF ~updateStatusNeeded
    THEN [persisted |-> stored, hasError |-> hasError, calls |-> <<>>, failed |-> {}]
    ELSE IF updateOK
    THEN [persisted |-> conds, hasError |-> hasError,
          calls |-> <<"UpdateCRStatus">>, failed |-> {}]
    ELSE [persisted |-> stored, hasError |-> TRUE,
          calls |-> <<"UpdateCRStatus">>, failed |-> {"UpdateCRStatus"}]

\* CancelSync with the bug of leaving nextInterval alone after a successful
\* cancel.
CancelSyncKeepInterval(cancelSyncNeeded, cancelOK, nextInterval, hasError) ==
    IF ~cancelSyncNeeded
    THEN [nextInterval |-> nextInterval, hasError |-> hasError,
          calls |-> <<>>, failed |-> {}]
    ELSE IF cancelOK
    THEN [nextInterval |-> nextInterval, hasError |-> hasError,
          calls |-> <<"CancelSynchronization">>, failed |-> {}]
    ELSE [nextInterval |-> nextInterval, hasError |-> TRUE,
          calls |-> <<"CancelSynchronization">>,
          failed |-> {"CancelSynchronization"}]

\* CancelSync with the bug of giving up the inspection after an earlier error.
CancelSyncAbortOnError(cancelSyncNeeded, cancelOK, nextInterval, hasError) ==
    IF ~cancelSyncNeeded \/ hasError
    THEN [nextInterval |-> nextInterval, hasError |-> hasError,
          calls |-> <<>>, failed |-> {}]
    ELSE IF cancelOK
    THEN [nextInterval |-> FastRecheck, hasError |-> hasError,
          calls |-> <<"CancelSynchronization">>, failed |-> {}]
    ELSE [nextInterval |-> nextInterval, hasError |-> TRUE,
          calls |-> <<"CancelSynchronization">>,
          failed |-> {"CancelSynchronization"}]

\* "Cancel sync if needed".
CancelSync(cancelSyncNeeded, cancelOK, nextInterval, hasError) ==
    IF ~cancelSyncNeeded
    THEN [nextInterval |-> nextInterval, hasError |-> hasError,
          calls |-> <<>>, failed |-> {}]
    ELSE IF cancelOK
    THEN [nextInterval |-> FastRecheck, hasError |-> hasError,
          calls |-> <<"CancelSynchronization">>, failed |-> {}]
    ELSE [nextInterval |-> nextInterval, hasError |-> TRUE,
          calls |-> <<"CancelSynchronization">>,
          failed |-> {"CancelSynchronization"}]

\* ConfigureSync with the bug of never configuring.
ConfigureSyncSkip(configureSyncNeeded, epOK, authOK, syncOK, nextInterval, hasError) ==
    [nextInterval |-> nextInterval, hasError |-> hasError, calls |-> <<>>, failed |-> {}]

\* "Configure sync if needed".
ConfigureSync(configureSyncNeeded, epOK, authOK, syncOK, nextInterval, hasError) ==
    IF ~configureSyncNeeded
    THEN [nextInterval |-> nextInterval, hasError |-> hasError,
          calls |-> <<>>, failed |-> {}]
    ELSE IF ~epOK
    THEN [nextInterval |-> nextInterval, hasError |-> TRUE,
          calls |-> <<"CreateArangoSyncEndpoint">>,
          failed |-> {"CreateArangoSyncEndpoint"}]
    ELSE IF ~authOK
    THEN [nextInterval |-> nextInterval, hasError |-> TRUE,
          calls |-> <<"CreateArangoSyncEndpoint", "CreateArangoSyncTLSAuthentication">>,
          failed |-> {"CreateArangoSyncTLSAuthentication"}]
    ELSE IF syncOK
    THEN [nextInterval |-> FastRecheck, hasError |-> hasError,
          calls |-> <<"CreateArangoSyncEndpoint", "CreateArangoSyncTLSAuthentication",
                      "Synchronize">>,
          failed |-> {}]
    ELSE [nextInterval |-> nextInterval, hasError |-> TRUE,
          calls |-> <<"CreateArangoSyncEndpoint", "CreateArangoSyncTLSAuthentication",
                      "Synchronize">>,
          failed |-> {"Synchronize"}]

\* UpdateNextInterval with the bug of resetting the interval on every erroring
\* inspection, not only on the first of a streak.
UpdateNextIntervalEveryError(hasError, streak, nextInterval, minInterval) ==
    IF hasError
    THEN [nextInterval |-> minInterval, recentInspectionErrors |-> 1]
    ELSE [nextInterval |-> nextInterval, recentInspectionErrors |-> 0]

\* UpdateNextInterval with the bug of never resetting the streak.
UpdateNextIntervalNoReset(hasError, streak, nextInterval, minInterval) ==
    IF hasError /\ streak = 0
    THEN [nextInterval |-> minInterval, recentInspectionErrors |-> streak + 1]
    ELSE [nextInterval |-> nextInterval, recentInspectionErrors |-> streak]

\* "Update next interval (on errors)".
UpdateNextInterval(hasError, streak, nextInterval, minInterval) ==
    IF hasError
    THEN IF streak = 0
         THEN [nextInterval |-> minInterval, recentInspectionErrors |-> streak + 1]
         ELSE [nextInterval |-> nextInterval, recentInspectionErrors |-> streak]
    ELSE [nextInterval |-> nextInterval, recentInspectionErrors |-> 0]

\* ClampInterval with the bug of not clamping.
ClampIntervalNone(nextInterval, maxInterval) == nextInterval

\* The closing clamp of nextInterval.
ClampInterval(nextInterval, maxInterval) ==
    IF nextInterval > maxInterval THEN maxInterval ELSE nextInterval



\* The outcomes of the calls an inspection makes to its collaborators: here
\* every call succeeds and the source is active with an outgoing endpoint.
AllSucceed ==
    [addFinOK |-> TRUE, runFinOK |-> TRUE, destClientOK |-> TRUE,
     destStatusOK |-> TRUE, interOK |-> TRUE, src |-> "outgoing",
     updateOK |-> TRUE, cancelOK |-> TRUE, epOK |-> TRUE, authOK |-> TRUE,
     syncOK |-> TRUE]

\* The record of an inspection: what it was given, what it saw, did and
\* returned.  calls and failed list the calls of the finalizer and destination
\* side (the source side's calls are in InspectConfiguration's sourceCalls).
NoInspection ==
    [path |-> "none", phase |-> PhaseNone, deleted |-> FALSE, destBefore |-> "none",
     lastInterval |-> 0, nextInterval |-> 0, hasError |-> FALSE,
     streakBefore |-> 0, condBefore |-> <<>>, dirtyBefore |-> FALSE,
     seen |-> "none", changed |-> FALSE, updateStatusNeeded |-> FALSE,
     configureSyncNeeded |-> FALSE, cancelSyncNeeded |-> FALSE,
     calls |-> <<>>, failed |-> {}]

\* CallOrder with the bug of writing the status after the remote calls.
CallOrderWriteLast(d, u, c, g) == <<"CreateDestinationClient">> \o d \o c \o g \o u

\* The order in which "Inspect configuration status" makes its calls, given
\* the calls of its steps: destination status, status update, cancel, configure.
CallOrder(d, u, c, g) == <<"CreateDestinationClient">> \o d \o u \o c \o g

\* The part of an inspection after "Is delete triggered?", for an object that
\* is not being deleted: "Inspect configuration status".
InspectConfiguration(lastInterval, o) ==
    IF ~o.destClientOK
    THEN [conditions |-> conditions, persisted |-> persisted, dest |-> dest,
          hasError |-> FALSE, nextInterval |-> lastInterval, seen |-> "none",
          changed |-> FALSE, updateStatusNeeded |-> FALSE,
          configureSyncNeeded |-> FALSE, cancelSyncNeeded |-> FALSE,
          sourceCalls |-> <<>>, sourceFailed |-> {},
          calls |-> <<"CreateDestinationClient">>,
          failed |-> {"CreateDestinationClient"}]
    ELSE LET d  == InspectDestination(conditions, o.destStatusOK, dest, o.interOK)
             s  == InspectSource(o.src)
             u  == UpdateStatus(d.updateStatusNeeded, o.updateOK, d.conditions,
                                persisted, SourceError(s))
             c  == CancelSync(d.cancelSyncNeeded, o.cancelOK, lastInterval, u.hasError)
             g  == ConfigureSync(d.configureSyncNeeded, o.epOK, o.authOK, o.syncOK,
                                 c.nextInterval, c.hasError)
         IN  [conditions |-> d.conditions, persisted |-> u.persisted,
              dest |-> IF "CancelSynchronization" \in SeqToSet(c.calls) \ c.failed
                       THEN "inactive"
                       ELSE IF "Synchronize" \in SeqToSet(g.calls) \ g.failed
                       THEN "match"
                       ELSE dest,
              hasError |-> g.hasError, nextInterval |-> g.nextInterval,
              seen |-> d.seen, changed |-> d.changed,
              updateStatusNeeded |-> d.updateStatusNeeded,
              configureSyncNeeded |-> d.configureSyncNeeded,
              cancelSyncNeeded |-> d.cancelSyncNeeded,
              sourceCalls |-> s.calls, sourceFailed |-> s.failed,
              calls |-> CallOrder(d.calls, u.calls, c.calls, g.calls),
              failed |-> d.failed \cup u.failed \cup c.failed \cup g.failed]

\* InspectionPath with the bug of not looking at the deletion timestamp.
InspectionPathNoDelete(ph, deleted) ==
    IF ph = PhaseFailed THEN "failed" ELSE "inspect"

\* InspectionPath with the bug of not looking at the Failed phase.
InspectionPathNoFailed(ph, deleted) ==
    IF deleted THEN "finalize" ELSE "inspect"

\* "Is the deployment in failed state, if so, give up" and "Is delete
\* triggered?": the branch an inspection takes.
InspectionPath(ph, deleted) ==
    IF ph = PhaseFailed THEN "failed"
    ELSE IF deleted THEN "finalize"
    ELSE "inspect"

\* inspectDeploymentReplication(lastInterval): the state it leaves and the
\* record of what it did.
InspectResult(lastInterval, o) ==
    LET fin == AddFinalizers(finalizer, deletionTimestamp, o.addFinOK)
        path == InspectionPath(phase, deletionTimestamp)
        base == [NoInspection EXCEPT !.lastInterval = lastInterval,
                                     !.phase = phase,
                                     !.deleted = deletionTimestamp,
                                     !.destBefore = dest,
                                     !.streakBefore = recentInspectionErrors,
                                     !.condBefore = conditions,
                                     !.dirtyBefore = (conditions # persisted)]
    IN  IF path = "failed"
        THEN [finalizer |-> fin.finalizer, conditions |-> conditions,
              persisted |-> persisted, dest |-> dest,
              recentInspectionErrors |-> recentInspectionErrors,
              last |-> [base EXCEPT !.path = "failed",
                                    !.nextInterval = lastInterval,
                                    !.calls = fin.calls,
                                    !.failed = fin.failed]]
        ELSE IF path = "finalize"
        THEN LET fs == FinalizeStep(fin.finalizer, o.runFinOK)
                 rf == fs.run
                 hasError == fs.hasError
                 n == UpdateNextInterval(hasError, recentInspectionErrors,
                                         lastInterval, minInspectionInterval)
             IN  [finalizer |-> rf.finalizer, conditions |-> conditions,
                  persisted |-> persisted, dest |-> dest,
                  recentInspectionErrors |-> n.recentInspectionErrors,
                  last |-> [base EXCEPT
                      !.path = "finalize",
                      !.nextInterval = ClampInterval(n.nextInterval,
                                                     maxInspectionInterval),
                      !.hasError = hasError,
                      !.calls = fin.calls \o rf.calls,
                      !.failed = fin.failed \cup rf.failed]]
        ELSE LET b == InspectConfiguration(lastInterval, o)
                 n == UpdateNextInterval(b.hasError, recentInspectionErrors,
                                         b.nextInterval, minInspectionInterval)
             IN  [finalizer |-> fin.finalizer, conditions |-> b.conditions,
                  persisted |-> b.persisted, dest |-> b.dest,
                  recentInspectionErrors |-> n.recentInspectionErrors,
                  last |-> [base EXCEPT
                      !.path = "inspect",
                      !.nextInterval = ClampInterval(n.nextInterval,
                                                     maxInspectionInterval),
                      !.hasError = b.hasError,
                      !.seen = b.seen,
                      !.changed = b.changed,
                      !.updateStatusNeeded = b.updateStatusNeeded,
                      !.configureSyncNeeded = b.configureSyncNeeded,
                      !.cancelSyncNeeded = b.cancelSyncNeeded,
                      !.calls = fin.calls \o b.calls,
                      !.failed = fin.failed \cup b.failed]]

\* The outcomes that can differ for an inspection started in the current
\* state: a call that is not made has no outcome (it is listed as succeeding).
Outcomes ==
    LET addFin == IF deletionTimestamp \/ finalizer THEN {TRUE} ELSE BOOLEAN
        ok(a) == [AllSucceed EXCEPT !.addFinOK = a]
        t == DestinationDecision(dest)
        upd == IF ConditionsUpdate(conditions, ConditionTypeConfigured, t.isTrue,
                                   t.reason, t.message).changed
               THEN BOOLEAN ELSE {TRUE}
    IN  IF phase = PhaseFailed
        THEN {ok(a) : a \in addFin}
        ELSE IF deletionTimestamp
        THEN {[ok(TRUE) EXCEPT !.runFinOK = r] :
                 r \in IF finalizer THEN BOOLEAN ELSE {TRUE}}
        ELSE UNION {
            {[ok(a) EXCEPT !.destClientOK = FALSE]} \cup
            {[ok(a) EXCEPT !.destStatusOK = FALSE, !.src = s] : s \in SourceOutcomes} \cup
            (IF dest = "inactive"
             THEN UNION {
                    {[ok(a) EXCEPT !.src = s, !.updateOK = u, !.epOK = FALSE],
                     [ok(a) EXCEPT !.src = s, !.updateOK = u, !.authOK = FALSE],
                     [ok(a) EXCEPT !.src = s, !.updateOK = u, !.syncOK = FALSE],
                     [ok(a) EXCEPT !.src = s, !.updateOK = u]} :
                    s \in SourceOutcomes, u \in upd}
             ELSE {[ok(a) EXCEPT !.interOK = FALSE, !.src = s] : s \in SourceOutcomes} \cup
                  {[ok(a) EXCEPT !.src = s, !.updateOK = u, !.cancelOK = c] :
                     s \in SourceOutcomes, u \in upd,
                     c \in IF dest = "mismatch" THEN BOOLEAN ELSE {TRUE}})
            : a \in addFin}

\* The operator process and the inspection loop while they are not looked at.
MainOff ==
    [pc |-> "off", enableDeployment |-> FALSE, enableDeploymentReplication |-> TRUE,
     enableStorage |-> FALSE, namespace |-> "default", name |-> "operator",
     ip |-> "10.0.0.1", serverRunning |-> FALSE, operatorCreated |-> FALSE,
     operatorRunning |-> FALSE]

LoopOff == [pending |-> FALSE, inFlight |-> 0, watch |-> 0, timer |-> 0,
            manual |-> 0, started |-> 0]

\* The object state an inspection in execution is going to leave.
NoResult == [finalizer |-> FALSE, conditions |-> <<>>, persisted |-> <<>>,
             dest |-> "none", recentInspectionErrors |-> 0]

\* No inspection in execution, the supervisor not cancelled.
RunOff == [inFlight |-> FALSE, cancelled |-> FALSE, remaining |-> <<>>,
           afterCancel |-> {}, result |-> NoResult]

\* A DeploymentReplication object as it is created.
ObjectInit ==
    /\ phase = PhaseNone
    /\ deletionTimestamp = FALSE
    /\ finalizer = FALSE
    /\ conditions = <<>>
    /\ persisted = <<>>
    /\ recentInspectionErrors = 0
    /\ dest \in DestStates
    /\ prevHasError = FALSE
    /\ prevCancelOK = FALSE
    /\ last = NoInspection

Init ==
    /\ ObjectInit
    /\ main = MainOff
    /\ loop = LoopOff
    /\ run = RunOff

\* One run of inspectDeploymentReplication.
Inspect ==
    \E lastInterval \in LastIntervals : \E o \in Outcomes :
        \E r \in {InspectResult(lastInterval, o)} :
            /\ finalizer' = r.finalizer
            /\ conditions' = r.conditions
            /\ persisted' = r.persisted
            /\ recentInspectionErrors' = r.recentInspectionErrors
            /\ dest' = r.dest
            /\ prevHasError' = last.hasError
            /\ prevCancelOK' = ("CancelSynchronization" \in SeqToSet(last.calls) \ last.failed)
            /\ last' = r.last
            /\ UNCHANGED <<phase, deletionTimestamp, main, loop, run>>

\* The user deletes the object: the platform sets its deletion timestamp.
Delete ==
    /\ ~deletionTimestamp
    /\ deletionTimestamp' = TRUE
    /\ UNCHANGED <<phase, finalizer, conditions, persisted, recentInspectionErrors, dest,
                   prevHasError, prevCancelOK, last, main, loop, run>>

\* Something outside the inspector puts the object in the Failed phase.
MarkFailed ==
    /\ phase # PhaseFailed
    /\ phase' = PhaseFailed
    /\ UNCHANGED <<deletionTimestamp, finalizer, conditions, persisted, recentInspectionErrors, dest,
                   prevHasError, prevCancelOK, last, main, loop, run>>

\* The destination syncmaster changes state on its own.
RemoteChange ==
    /\ dest' \in DestStates \ {dest}
    /\ UNCHANGED <<phase, deletionTimestamp, finalizer, conditions, persisted,
                   recentInspectionErrors, prevHasError, prevCancelOK, last, main, loop, run>>

Next == Inspect \/ Delete \/ MarkFailed \/ RemoteChange

Spec == Init /\ [][Next]_vars

(***************************************************************************)
(* The operator process: cmdMainRun.                                       *)
(***************************************************************************)
objectVars == <<phase, deletionTimestamp, finalizer, conditions, persisted,
                recentInspectionErrors, dest, prevHasError, prevCancelOK, last>>

\* The values an environment variable of the operator pod is given.
EnvValues(v) == {"", v}

\* cmdMainRun is entered with the flags and the environment the pod was given.
MainStarts ==
    {[MainOff EXCEPT !.pc = "log", !.enableDeployment = d,
                     !.enableDeploymentReplication = r, !.enableStorage = st,
                     !.namespace = ns, !.name = n, !.ip = i] :
        d \in BOOLEAN, r \in BOOLEAN, st \in BOOLEAN,
        ns \in EnvValues("default"), n \in EnvValues("operator"),
        i \in EnvValues("10.0.0.1")}

InitMain ==
    /\ ObjectInit
    /\ main \in MainStarts
    /\ loop = LoopOff
    /\ run = RunOff

\* cliLog.Fatal(): the process exits.
Fatal == [main EXCEPT !.pc = "fatal"]

\* "Check operating mode": no operator is turned on.
NoModeEnabled(m) ==
    ~m.enableDeployment /\ ~m.enableDeploymentReplication /\ ~m.enableStorage

\* len(value) == 0 of an environment variable.
IsMissing(value) == value = ""

\* logging.NewService(logLevel)
MainLogService ==
    /\ main.pc = "log"
    /\ \E ok \in BOOLEAN : main' = IF ok THEN [main EXCEPT !.pc = "mode"] ELSE Fatal
    /\ UNCHANGED <<objectVars, loop, run>>

\* "Check operating mode"
MainCheckMode ==
    /\ main.pc = "mode"
    /\ main' = IF NoModeEnabled(main) THEN Fatal ELSE [main EXCEPT !.pc = "namespace"]
    /\ UNCHANGED <<objectVars, loop, run>>

\* "Get environment": the pod namespace
MainGetNamespace ==
    /\ main.pc = "namespace"
    /\ main' = IF IsMissing(main.namespace) THEN Fatal ELSE [main EXCEPT !.pc = "name"]
    /\ UNCHANGED <<objectVars, loop, run>>

\* "Get environment": the pod name
MainGetName ==
    /\ main.pc = "name"
    /\ main' = IF IsMissing(main.name) THEN Fatal ELSE [main EXCEPT !.pc = "ip"]
    /\ UNCHANGED <<objectVars, loop, run>>

\* MainGetIP with the bug of not checking the value.
MainGetIPUnchecked ==
    /\ main.pc = "ip"
    /\ main' = [main EXCEPT !.pc = "hostname"]
    /\ UNCHANGED <<objectVars, loop, run>>

\* "Get environment": the pod IP
MainGetIP ==
    /\ main.pc = "ip"
    /\ main' = IF IsMissing(main.ip) THEN Fatal ELSE [main EXCEPT !.pc = "hostname"]
    /\ UNCHANGED <<objectVars, loop, run>>

\* "Get host name"
MainHostname ==
    /\ main.pc = "hostname"
    /\ \E ok \in BOOLEAN : main' = IF ok THEN [main EXCEPT !.pc = "kubecli"] ELSE Fatal
    /\ UNCHANGED <<objectVars, loop, run>>

\* "Create kubernetes client"
MainKubeClient ==
    /\ main.pc = "kubecli"
    /\ \E ok \in BOOLEAN : main' = IF ok THEN [main EXCEPT !.pc = "server"] ELSE Fatal
    /\ UNCHANGED <<objectVars, loop, run>>

\* server.NewServer and `go svr.Run()`
MainServer ==
    /\ main.pc = "server"
    /\ \E ok \in BOOLEAN :
          main' = IF ok THEN [main EXCEPT !.pc = "config", !.serverRunning = TRUE]
                  ELSE Fatal
    /\ UNCHANGED <<objectVars, loop, run>>

\* newOperatorConfigAndDeps
MainConfigAndDeps ==
    /\ main.pc = "config"
    /\ \E ok \in BOOLEAN : main' = IF ok THEN [main EXCEPT !.pc = "newOperator"] ELSE Fatal
    /\ UNCHANGED <<objectVars, loop, run>>

\* operator.NewOperator(cfg, deps)
MainNewOperator ==
    /\ main.pc = "newOperator"
    /\ \E ok \in BOOLEAN :
          main' = IF ok THEN [main EXCEPT !.pc = "run", !.operatorCreated = TRUE]
                  ELSE Fatal
    /\ UNCHANGED <<objectVars, loop, run>>

\* o.Run()
MainRunOperator ==
    /\ main.pc = "run"
    /\ main' = [main EXCEPT !.pc = "running", !.operatorRunning = TRUE]
    /\ UNCHANGED <<objectVars, loop, run>>

NextMain ==
    \/ MainLogService \/ MainCheckMode \/ MainGetNamespace \/ MainGetName
    \/ MainGetIP \/ MainHostname \/ MainKubeClient \/ MainServer
    \/ MainConfigAndDeps \/ MainNewOperator \/ MainRunOperator

SpecMain == InitMain /\ [][NextMain]_vars

(***************************************************************************)
(* The per-object inspection loop: triggers, the coalescer, one worker.    *)
(***************************************************************************)
\* How many triggers of each kind arrive.
MaxTriggers == 3

\* inspectTrigger.Trigger(): the coalescer holds one pending signal.
Trigger(l) == [l EXCEPT !.pending = TRUE]

\* The number of triggers that have arrived.
Arrived(l) == l.watch + l.timer + l.manual

\* A watch add/update/delete event of the object.
WatchEvent ==
    /\ loop.watch < MaxTriggers
    /\ loop' = Trigger([loop EXCEPT !.watch = @ + 1])
    /\ UNCHANGED <<objectVars, main, run>>

\* The returned interval has passed.
TimerExpiry ==
    /\ loop.timer < MaxTriggers
    /\ loop' = Trigger([loop EXCEPT !.timer = @ + 1])
    /\ UNCHANGED <<objectVars, main, run>>

\* triggerInspection: "ensures that an inspection is run soon"
TriggerInspection ==
    /\ loop.manual < MaxTriggers
    /\ loop' = Trigger([loop EXCEPT !.manual = @ + 1])
    /\ UNCHANGED <<objectVars, main, run>>

\* StartInspection with the bug of a worker per trigger.
StartInspectionPerTrigger ==
    /\ loop.pending
    /\ loop' = [loop EXCEPT !.pending = FALSE, !.inFlight = @ + 1, !.started = @ + 1]
    /\ UNCHANGED <<objectVars, main, run>>

\* The object's worker takes the pending signal and begins an inspection.
StartInspection ==
    /\ loop.pending
    /\ loop.inFlight = 0
    /\ loop' = [loop EXCEPT !.pending = FALSE, !.inFlight = @ + 1, !.started = @ + 1]
    /\ UNCHANGED <<objectVars, main, run>>

\* The inspection returns its interval.
FinishInspection ==
    /\ loop.inFlight > 0
    /\ loop' = [loop EXCEPT !.inFlight = @ - 1]
    /\ UNCHANGED <<objectVars, main, run>>

InitLoop == ObjectInit /\ main = MainOff /\ loop = LoopOff /\ run = RunOff

NextLoop ==
    \/ WatchEvent \/ TimerExpiry \/ TriggerInspection
    \/ StartInspection \/ FinishInspection

SpecLoop == InitLoop /\ [][NextLoop]_vars

(***************************************************************************)
(* One inspection in execution, call by call, and the supervisor's         *)
(* cancellation.                                                           *)
(***************************************************************************)
\* The calls the cancellation is about: the remote Status, cancel and
\* configure calls and the status write.
RemoteCalls == {"DestinationStatus", "CancelSynchronization", "Synchronize", "UpdateCRStatus"}

\* inspectDeploymentReplication is entered: the calls it is going to make and
\* the object state it is going to leave, for the outcomes its calls will have.
StartRun ==
    /\ ~run.inFlight
    /\ ~run.cancelled
    /\ \E lastInterval \in LastIntervals : \E o \in Outcomes :
          \E r \in {InspectResult(lastInterval, o)} :
              run' = [inFlight |-> TRUE, cancelled |-> FALSE,
                      remaining |-> r.last.calls, afterCancel |-> {},
                      result |-> [finalizer |-> r.finalizer,
                                  conditions |-> r.conditions,
                                  persisted |-> r.persisted, dest |-> r.dest,
                                  recentInspectionErrors |-> r.recentInspectionErrors]]
    /\ UNCHANGED <<objectVars, main, loop>>

\* The inspection makes its next call. Its remote calls are given
\* ctx = context.Background() and no step looks at a cancellation, so the call
\* is made whether or not the supervisor was cancelled.
RunCall ==
    /\ run.inFlight
    /\ run.remaining # <<>>
    /\ run' = [run EXCEPT !.remaining = Tail(@),
                          !.afterCancel = IF run.cancelled
                                          THEN @ \cup {Head(run.remaining)}
                                          ELSE @]
    /\ UNCHANGED <<objectVars, main, loop>>

\* The supervisor's cancellation context is cancelled.
CancelSupervisor ==
    /\ ~run.cancelled
    /\ run' = [run EXCEPT !.cancelled = TRUE]
    /\ UNCHANGED <<objectVars, main, loop>>

\* The inspection returns: the object is as the inspection leaves it.
FinishRun ==
    /\ run.inFlight
    /\ run.remaining = <<>>
    /\ finalizer' = run.result.finalizer
    /\ conditions' = run.result.conditions
    /\ persisted' = run.result.persisted
    /\ dest' = run.result.dest
    /\ recentInspectionErrors' = run.result.recentInspectionErrors
    /\ run' = [run EXCEPT !.inFlight = FALSE, !.result = NoResult]
    /\ UNCHANGED <<phase, deletionTimestamp, prevHasError, prevCancelOK, last, main, loop>>

InitCancel == Init

NextCancel == StartRun \/ RunCall \/ CancelSupervisor \/ FinishRun

SpecCancel == InitCancel /\ [][NextCancel]_vars

(***************************************************************************)
(* Repeated inspections in which every call succeeds.                      *)
(***************************************************************************)
\* The Configured condition an inspection seeing the destination in state d
\* sets.
ConditionFor(d) ==
    LET t == DestinationDecision(d)
    IN  Condition(ConditionTypeConfigured, t.isTrue, t.reason, t.message)

\* The condition lists an object can hold: none yet, or the Configured
\* condition some inspection has set.
ConditionLists == {<<>>} \cup {<<ConditionFor(d)>> : d \in DestStates}

\* Every call of the inspection succeeds (whatever the source side reports).
Succeeds(o) ==
    /\ o.addFinOK /\ o.runFinOK /\ o.destClientOK /\ o.destStatusOK /\ o.interOK
    /\ o.updateOK /\ o.cancelOK /\ o.epOK /\ o.authOK /\ o.syncOK

\* An object that is not Failed and not being deleted, in any state earlier
\* inspections can have left it in, with the destination in any state.
InitConverge ==
    /\ phase = PhaseNone
    /\ deletionTimestamp = FALSE
    /\ finalizer \in BOOLEAN
    /\ conditions \in ConditionLists
    /\ persisted \in ConditionLists
    /\ conditions = <<>> => persisted = <<>>
    /\ recentInspectionErrors \in {0, 1}
    /\ conditions = <<>> => recentInspectionErrors = 0
    /\ dest \in DestStates
    /\ prevHasError = FALSE
    /\ prevCancelOK = FALSE
    /\ last = NoInspection
    /\ main = MainOff
    /\ loop = LoopOff
    /\ run = RunOff

\* inspectDeploymentReplication(lastInterval) with every call succeeding.
InspectSucceeding ==
    \E lastInterval \in LastIntervals : \E o \in {x \in Outcomes : Succeeds(x)} :
        \E r \in {InspectResult(lastInterval, o)} :
            /\ finalizer' = r.finalizer
            /\ conditions' = r.conditions
            /\ persisted' = r.persisted
            /\ recentInspectionErrors' = r.recentInspectionErrors
            /\ dest' = r.dest
            /\ prevHasError' = last.hasError
            /\ prevCancelOK' = ("CancelSynchronization" \in SeqToSet(last.calls) \ last.failed)
            /\ last' = r.last
            /\ UNCHANGED <<phase, deletionTimestamp, main, loop, run>>

NextConverge == InspectSucceeding

\* The loop inspects the object again after every returned interval.
SpecConverge == InitConverge /\ [][NextConverge]_vars /\ WF_vars(InspectSucceeding)

(***************************************************************************)
(* Reading the record of the last inspection.                              *)
(***************************************************************************)
Inspected == last.path # "none"

\* The inspection made the call / the call was made and did not fail.
Called(c) == c \in SeqToSet(last.calls)
Succeeded(c) == Called(c) /\ c \notin last.failed

\* The inspection reached a decision on the destination: it is neither Failed
\* nor being deleted and the status fetch and the intersection check succeeded.
Decided == last.path = "inspect" /\ last.seen # "none"

\* The Configured condition held in memory is (isTrue, reason).
Configured(isTrue, reason) ==
    LET i == ConditionIndex(conditions, ConditionTypeConfigured)
    IN  /\ i # 0
        /\ conditions[i].isTrue = isTrue
        /\ conditions[i].reason = reason

\* The interval an inspection computed before the error-streak policy.
ComputedInterval ==
    IF Succeeded("CancelSynchronization") \/ Succeeded("Synchronize")
    THEN FastRecheck ELSE last.lastInterval

\* Before the inspection the object already held the condition that an
\* inspection seeing the destination in state d sets.
HeldBefore(d) ==
    LET t == DestinationDecision(d)
    IN  \E i \in 1..Len(last.condBefore) :
            last.condBefore[i] = Condition(ConditionTypeConfigured, t.isTrue,
                                           t.reason, t.message)

Smaller(a, b) == IF a < b THEN a ELSE b

\* C1 (as stated): an inspection that reaches a decision follows the decision
\* table: active and intersecting -> Configured=true/"Active" and neither a
\* cancel nor a configure call; active and not intersecting ->
\* Configured=false/"Invalid" and a cancel call; inactive ->
\* Configured=false/"Inactive" and a configure call.
C1_DecisionTableAsStated ==
    Decided =>
        /\ last.seen = "match" =>
              /\ Configured(TRUE, "Active")
              /\ ~Called("CancelSynchronization") /\ ~Called("Synchronize")
        /\ last.seen = "mismatch" =>
              /\ Configured(FALSE, "Invalid")
              /\ Called("CancelSynchronization")
        /\ last.seen = "inactive" =>
              /\ Configured(FALSE, "Inactive")
              /\ Called("Synchronize")

\* C1 (amended): the decision table holds with the inactive row reading:
\* Configured=false/"Inactive", no cancel call, and a configure call exactly
\* when the source endpoint and the TLS authentication could be derived from
\* the Spec; when one of them cannot, no configure call is made and the
\* inspection counts as erroring.
C1_DecisionTable ==
    Decided =>
        /\ last.seen = "match" =>
              /\ Configured(TRUE, "Active")
              /\ ~Called("CancelSynchronization") /\ ~Called("Synchronize")
        /\ last.seen = "mismatch" =>
              /\ Configured(FALSE, "Invalid")
              /\ Called("CancelSynchronization") /\ ~Called("Synchronize")
        /\ last.seen = "inactive" =>
              /\ Configured(FALSE, "Inactive")
              /\ ~Called("CancelSynchronization")
              /\ Called("CreateArangoSyncEndpoint")
              /\ Called("Synchronize") <=>
                    /\ Succeeded("CreateArangoSyncEndpoint")
                    /\ Succeeded("CreateArangoSyncTLSAuthentication")
              /\ ~Called("Synchronize") => last.hasError

C1_Witness ==
    /\ Decided /\ last.seen = "inactive"
    /\ Called("CreateArangoSyncTLSAuthentication")
    /\ ~Succeeded("CreateArangoSyncTLSAuthentication")
    /\ ~Called("Synchronize")

\* C2: an inspection of an object whose deletion timestamp is set issues no
\* CancelSynchronization and no Synchronize call, whatever the state of the
\* destination.
C2_NoActionPostDeletion ==
    (Inspected /\ last.deleted) =>
        ~Called("CancelSynchronization") /\ ~Called("Synchronize")

C2_Witness ==
    /\ Inspected /\ last.deleted /\ last.phase # PhaseFailed
    /\ last.destBefore = "mismatch"
    /\ Called("RunFinalizers")

\* C3: in one inspection configureSyncNeeded and cancelSyncNeeded are never
\* both true, and at most one of CancelSynchronization and Synchronize is
\* called.
C3_MutualExclusion ==
    Inspected =>
        /\ ~(last.configureSyncNeeded /\ last.cancelSyncNeeded)
        /\ ~(Called("CancelSynchronization") /\ Called("Synchronize"))

C3_Witness ==
    /\ Decided /\ last.cancelSyncNeeded /\ Called("CancelSynchronization")

\* C4 (the claim): a failed destination status fetch counts as an inspection
\* error: with the error streak at zero the inspection returns
\* minInspectionInterval and leaves the streak at 1, and a further fetch
\* failure leaves the streak at 1.
C4_FetchFailureCounts ==
    (last.path = "inspect" /\ "DestinationStatus" \in last.failed) =>
        /\ last.hasError
        /\ recentInspectionErrors = 1
        /\ last.streakBefore = 0 => last.nextInterval = minInspectionInterval

\* C5: an erroring inspection that starts with the streak at zero returns
\* minInspectionInterval and sets the streak to 1; an erroring inspection that
\* follows an erroring one leaves the streak at 1 and returns the interval it
\* computed (lastInterval, or 10s after a successful cancel or configure)
\* clamped to maxInspectionInterval.
C5_SingleBump ==
    (Inspected /\ last.hasError) =>
        /\ last.streakBefore = 0 =>
              /\ last.nextInterval = minInspectionInterval
              /\ recentInspectionErrors = 1
        /\ prevHasError =>
              /\ last.streakBefore = 1
              /\ recentInspectionErrors = 1
              /\ last.nextInterval = Smaller(ComputedInterval, maxInspectionInterval)

C5_Witness ==
    /\ Inspected /\ last.hasError /\ prevHasError
    /\ Succeeded("CancelSynchronization")
    /\ last.nextInterval = FastRecheck

\* C6 (as stated): every interval an inspection returns lies in
\* [minInspectionInterval, maxInspectionInterval].
C6_IntervalInBoundsAsStated ==
    Inspected =>
        /\ minInspectionInterval <= last.nextInterval
        /\ last.nextInterval <= maxInspectionInterval

\* C6 (amended): an inspection that passes the Failed check returns at most
\* maxInspectionInterval, and every inspection handed a lastInterval within
\* [minInspectionInterval, maxInspectionInterval] returns an interval within
\* them.
C6_IntervalInBounds ==
    /\ last.path \in {"finalize", "inspect"} =>
          last.nextInterval <= maxInspectionInterval
    /\ (/\ Inspected
        /\ minInspectionInterval <= last.lastInterval
        /\ last.lastInterval <= maxInspectionInterval) =>
          /\ minInspectionInterval <= last.nextInterval
          /\ last.nextInterval <= maxInspectionInterval

C6_Witness ==
    /\ last.path = "inspect"
    /\ last.lastInterval > maxInspectionInterval
    /\ last.nextInterval = maxInspectionInterval

\* C7: an inspection of an object in phase Failed makes no remote Status,
\* CancelSynchronization or Synchronize call, does not run finalizers, writes
\* no status, leaves the conditions and the error streak as they were, and
\* returns lastInterval.
C7_FailedShortCircuit ==
    (Inspected /\ last.phase = PhaseFailed) =>
        /\ SeqToSet(last.calls) \subseteq {"AddFinalizer"}
        /\ conditions = last.condBefore
        /\ (conditions # persisted) = last.dirtyBefore
        /\ recentInspectionErrors = last.streakBefore
        /\ ~last.hasError
        /\ last.nextInterval = last.lastInterval

C7_Witness ==
    /\ Inspected /\ last.phase = PhaseFailed
    /\ last.deleted /\ finalizer
    /\ last.streakBefore = 1
    /\ last.lastInterval > maxInspectionInterval

\* C8 (the claim): when a status write failed and left the condition held in
\* memory unpersisted, the next inspection that reaches a decision attempts
\* the status write again.
C8_WriteRetried ==
    (Decided /\ last.dirtyBefore) => Called("UpdateCRStatus")

\* C9 (as stated): an inspection whose CancelSynchronization or Synchronize
\* call succeeds returns 10s capped at maxInspectionInterval.
C9_FastRecheckAsStated ==
    (Succeeded("CancelSynchronization") \/ Succeeded("Synchronize")) =>
        last.nextInterval = Smaller(FastRecheck, maxInspectionInterval)

\* C9 (amended): an inspection whose CancelSynchronization or Synchronize
\* call succeeds returns 10s capped at maxInspectionInterval, unless its
\* status write failed while the error streak was zero: then it returns
\* minInspectionInterval.
C9_FastRecheck ==
    (Succeeded("CancelSynchronization") \/ Succeeded("Synchronize")) =>
        /\ last.hasError <=> (Called("UpdateCRStatus") /\ ~Succeeded("UpdateCRStatus"))
        /\ last.nextInterval =
              IF last.hasError /\ last.streakBefore = 0
              THEN Smaller(minInspectionInterval, maxInspectionInterval)
              ELSE Smaller(FastRecheck, maxInspectionInterval)

C9_Witness ==
    /\ Succeeded("Synchronize")
    /\ last.hasError /\ last.streakBefore = 0
    /\ last.nextInterval = minInspectionInterval

\* C10: a status write is issued only by an inspection whose condition update
\* reported a change; an inspection that sets the condition the object
\* already holds reports no change and issues no status write.
C10_WriteOnlyOnChange ==
    Inspected =>
        /\ Called("UpdateCRStatus") => last.changed
        /\ (Decided /\ HeldBefore(last.seen)) =>
              /\ ~last.changed /\ ~Called("UpdateCRStatus")
              /\ conditions = last.condBefore

C10_Witness ==
    /\ Decided /\ last.seen = "match" /\ HeldBefore("match")
    /\ persisted = conditions
    /\ ~Called("UpdateCRStatus")

\* The source endpoint and the TLS authentication of a configure call were
\* both derived from the Spec.
ConfigureDerived ==
    /\ Succeeded("CreateArangoSyncEndpoint")
    /\ Succeeded("CreateArangoSyncTLSAuthentication")

\* C11 (as stated): an inspection whose condition update reports no change
\* issues no CancelSynchronization and no Synchronize call.
C11_NoCallWithoutChangeAsStated ==
    (Decided /\ ~last.changed) =>
        ~Called("CancelSynchronization") /\ ~Called("Synchronize")

\* C11 (amended): an inspection whose condition update reports no change
\* issues no status write, but it issues the remote call the destination
\* state asks for again: a cancel when the destination is still active with
\* another source, a configure (when its request can be derived) when the
\* destination is still inactive, and none when it is active and matching.
C11_NoWriteWithoutChange ==
    (Decided /\ ~last.changed) =>
        /\ HeldBefore(last.seen)
        /\ ~Called("UpdateCRStatus")
        /\ Called("CancelSynchronization") <=> last.seen = "mismatch"
        /\ Called("Synchronize") <=> (last.seen = "inactive" /\ ConfigureDerived)

C11_Witness ==
    /\ Decided /\ ~last.changed /\ last.seen = "mismatch"
    /\ Called("CancelSynchronization")

\* C12 (as stated): a destination seen active with another source gets a
\* cancel and no configure call; the inspection that follows a successful
\* cancel and sees the destination inactive issues the configure call; no
\* configure call is issued by an inspection that saw the destination active.
C12_CancelThenConfigureAsStated ==
    Inspected =>
        /\ (Decided /\ last.seen = "mismatch") =>
              Called("CancelSynchronization") /\ ~Called("Synchronize")
        /\ (prevCancelOK /\ Decided /\ last.seen = "inactive") =>
              Called("Synchronize")
        /\ Called("Synchronize") => last.seen = "inactive"

\* C12 (amended): as stated, with the inspection that follows a successful
\* cancel and sees the destination inactive issuing the configure call exactly
\* when the source endpoint and the TLS authentication can be derived from the
\* Spec (it attempts the derivation in every case).
C12_CancelThenConfigure ==
    Inspected =>
        /\ (Decided /\ last.seen = "mismatch") =>
              Called("CancelSynchronization") /\ ~Called("Synchronize")
        /\ (prevCancelOK /\ Decided /\ last.seen = "inactive") =>
              /\ Called("CreateArangoSyncEndpoint")
              /\ Called("Synchronize") <=> ConfigureDerived
        /\ Called("Synchronize") => (Decided /\ last.seen = "inactive")

C12_Witness ==
    /\ prevCancelOK /\ Decided /\ last.seen = "inactive"
    /\ HeldBefore("mismatch")
    /\ Succeeded("Synchronize")

C14_StartupGating ==
    LET gated == /\ ~NoModeEnabled(main)
                 /\ main.namespace # "" /\ main.name # "" /\ main.ip # ""
    IN  /\ (main.operatorCreated \/ main.operatorRunning) => gated
        /\ ~gated =>
              /\ main.pc \in {"off", "log", "mode", "namespace", "name", "ip", "fatal"}
              /\ ~main.operatorCreated /\ ~main.operatorRunning /\ ~main.serverRunning

C14_Witness ==
    /\ main.pc = "running" /\ main.operatorCreated /\ main.operatorRunning
    /\ main.enableStorage /\ ~main.enableDeployment
    /\ ~main.enableDeploymentReplication

\* C15: for one object at most one inspection is in execution at any time,
\* however many watch events, timer expiries and triggerInspection calls
\* arrive; a trigger that arrives while an inspection runs stays pending for a
\* later inspection, so inspections started never outnumber triggers arrived,
\* and a pending signal stands for at least one trigger not yet inspected.
C15_Serialization ==
    /\ loop.inFlight \in {0, 1}
    /\ loop.started <= Arrived(loop)
    /\ loop.pending => loop.started < Arrived(loop)
    /\ (Arrived(loop) > 0 /\ ~loop.pending) => loop.started >= 1

\* Triggers of all three kinds arrived while the first inspection runs.
C15_Witness ==
    /\ loop.inFlight = 1 /\ loop.pending /\ loop.started = 1
    /\ loop.watch >= 2 /\ loop.timer >= 2 /\ loop.manual >= 2

\* The place of call c among the calls of the last inspection.
Position(c) == CHOOSE i \in 1..Len(last.calls) : last.calls[i] = c

\* Call a was made before call b.
Precedes(a, b) == Called(a) /\ Called(b) /\ Position(a) < Position(b)

\* The last inspection changed the condition, wrote the status and made a
\* cancel or a configure call.
WroteAndActed ==
    /\ Inspected /\ last.changed /\ Called("UpdateCRStatus")
    /\ Called("CancelSynchronization") \/ Called("Synchronize")

C17_NoMarkerForTerminating ==
    [][/\ (deletionTimestamp /\ ~finalizer) => ~finalizer'
       /\ (last'.path # "none" /\ last'.deleted) =>
              "AddFinalizer" \notin SeqToSet(last'.calls)]_vars

\* A terminating object inspected past the Failed check that holds no marker
\* after the inspection, without a failed cleanup.
C17_Witness ==
    /\ Inspected /\ last.deleted /\ last.path = "finalize" /\ ~finalizer
    /\ ~last.hasError /\ ~Called("AddFinalizer")

\* C18 (the claim): an inspection of an object whose deletion timestamp is set
\* and which holds the finalizer marker runs the finalizers, whatever the
\* phase of the object: a terminating object that still holds the marker after
\* an inspection had its cleanup attempted by that inspection.
C18_FinalizersRunInEveryPhase ==
    (Inspected /\ last.deleted /\ finalizer) => Called("RunFinalizers")

\* C19 (as stated): recentInspectionErrors counts the most recent consecutive
\* inspections that ended with an error: an inspection that ends with an error
\* adds one to it, and it is zero after an inspection that ends without one.
C19_StreakCountsAsStated ==
    Inspected =>
        /\ last.hasError => recentInspectionErrors = last.streakBefore + 1
        /\ ~last.hasError => recentInspectionErrors = 0

\* C19 (amended): recentInspectionErrors is never more than 1; after an
\* inspection that passes the Failed check it is 1 if the inspection ended
\* with an error and 0 if it did not; an inspection that returns at the Failed
\* check leaves it as it was.
C19_StreakIsFlag ==
    /\ recentInspectionErrors \in {0, 1}
    /\ Inspected =>
          /\ last.path # "failed" =>
                recentInspectionErrors = (IF last.hasError THEN 1 ELSE 0)
          /\ last.path = "failed" =>
                ~last.hasError /\ recentInspectionErrors = last.streakBefore

\* The second of two consecutive failed cleanups.
C19_Witness ==
    /\ Inspected /\ last.path = "finalize" /\ last.hasError /\ prevHasError
    /\ last.streakBefore = 1 /\ recentInspectionErrors = 1

\* C20: the outcome of the source side (client creation, Status result or
\* failure, hasOutgoingEndpoint result) changes nothing an inspection does
\* besides its source calls: for every inspection that can start in a state,
\* the condition, the persisted status, the status write and the
\* cancel/configure calls with their failures, the error streak, the
\* destination and the returned interval are those of the inspection that
\* differs only in finding the source inactive.
C20_SourceDiagnosticOnly ==
    \A lastInterval \in LastIntervals : \A o \in Outcomes :
        InspectResult(lastInterval, o) =
            InspectResult(lastInterval, [o EXCEPT !.src = "inactive"])

\* After an inspection that cancelled, the next inspection can find the source
\* check failing or succeeding, and configures in both cases.
C20_Witness ==
    /\ Decided /\ Succeeded("CancelSynchronization")
    /\ \E o \in Outcomes :
          /\ o.src = "checkError"
          /\ [o EXCEPT !.src = "outgoing"] \in Outcomes
          /\ InspectSource("checkError") # InspectSource("outgoing")
          /\ "Synchronize" \in SeqToSet(InspectResult(MaxLastInterval, o).last.calls)

\* C21: an inspection completes and returns an interval whatever calls fail:
\* a failed call does not keep the steps after it from running. After a failed
\* finalizer add the inspection goes on to its branch; after a failed status
\* write the cancel or configure that is needed is still attempted; and every
\* inspection with a failure that passed the Failed check still runs the
\* closing steps (the streak is set from hasError, the interval is clamped).
C21_NeverAborts ==
    Inspected =>
        /\ last.nextInterval \in 0..MaxLastInterval
        /\ last.path \in {"failed", "finalize", "inspect"}
        /\ ("AddFinalizer" \in last.failed /\ last.path = "inspect") =>
              Called("CreateDestinationClient")
        /\ "UpdateCRStatus" \in last.failed =>
              /\ last.cancelSyncNeeded => Called("CancelSynchronization")
              /\ last.configureSyncNeeded => Called("CreateArangoSyncEndpoint")
        /\ (last.failed # {} /\ last.path # "failed") =>
              /\ recentInspectionErrors = (IF last.hasError THEN 1 ELSE 0)
              /\ last.nextInterval <= maxInspectionInterval

\* The finalizer add, the status write and the cancel call all fail in one
\* inspection, which still returns minInspectionInterval.
C21_Witness ==
    /\ Inspected
    /\ {"AddFinalizer", "UpdateCRStatus", "CancelSynchronization"} \subseteq last.failed
    /\ last.hasError /\ last.nextInterval = minInspectionInterval

\* C22 (the claim): an inspection in execution when the supervisor is
\* cancelled makes no remote Status, CancelSynchronization or Synchronize call
\* and no status write after the cancellation.
C22_NoCallAfterCancel ==
    run.afterCancel \cap RemoteCalls = {}

\* The condition is Configured=true/"Active" and the last inspection made no
\* cancel call, no configure call and no status write.
Quiet ==
    /\ Configured(TRUE, "Active")
    /\ ~Called("CancelSynchronization")
    /\ ~Called("CreateArangoSyncEndpoint") /\ ~Called("Synchronize")
    /\ ~Called("UpdateCRStatus")

\* C23: for an object that is not Failed and not being deleted, with every
\* call and status write succeeding, repeated inspections eventually reach
\* Configured=true/"Active" with the destination active for Spec.Source, and
\* from then on no inspection issues a cancel call, a configure call or a
\* status write.
C23_Convergence == <>[](Quiet /\ dest = "match")

\* The inspection that follows a successful configure: it finds the
\* destination active, sets Configured=true/"Active" and writes it.
C23_Witness ==
    /\ Configured(TRUE, "Active") /\ dest = "match" /\ Decided
    /\ last.changed /\ Succeeded("UpdateCRStatus")
    /\ HeldBefore("inactive") /\ persisted = conditions
====
